---- MODULE Spec2Model ----
(***************************************************************************)
(* A model of three pieces of the jax_privacy repository:                  *)
(*                                                                         *)
(*   - VirtualBatching      (jax_privacy/src/training/batching.py)         *)
(*   - the example program  (examples/jax_api_example.py, main)            *)
(*   - ArrayConcatenater    (experiments/image_classification/metrics.py)  *)
(*                                                                         *)
(* The three are independent programs, so each has its own specification   *)
(* (Spec, SpecExample, SpecConcat) over the variables it owns; the         *)
(* variables of the other two stay at their initial values.                *)
(***************************************************************************)
EXTENDS Integers, Sequences, FiniteSets

VARIABLES
  \* ---- VirtualBatching -------------------------------------------------
  status,                          \* "unconstructed" | "constructed" | "raised"
  error,                           \* the exception __init__ raised, or "none"
  batch_size_init,                 \* self.batch_size_init
  batch_size_per_device_per_step,  \* self.batch_size_per_device_per_step
  num_devices,                     \* self.num_devices
  scale_schedule,                  \* self.scale_schedule
  constructed_with,                \* history: the arguments __init__ received
  query,                           \* the last query made: its name and argument
  result,                          \* what the last query returned
  \* ---- examples/jax_api_example.py: main --------------------------------
  pc,                              \* position in main
  num_epochs, batch_size, train_size, use_dp,   \* main's settings
  noise_multiplier,                \* main's local noise_multiplier
  gradient_computer,               \* main's local gradient_computer
  calibrate_calls,                 \* history: calls of calibrate_noise_multiplier
  calibrated,                      \* history: what the calibrator returned
  num_updates,                     \* the num_updates argument passed to it
  epoch, batches_left,             \* the two loops of main
  dp_steps, plain_steps,           \* history: update steps executed
  used_noise_multiplier,           \* history: multiplier the last DP step used
  \* ---- ArrayConcatenater -------------------------------------------------
  array,                           \* self._array: the list of stored chunks
  max_len,                         \* self._max_len
  current_len,                     \* self._current_len
  appended                         \* history: every array passed to append

vbVars == <<status, error, batch_size_init, batch_size_per_device_per_step,
            num_devices, scale_schedule, constructed_with, query, result>>
exVars == <<pc, num_epochs, batch_size, train_size, use_dp, noise_multiplier,
            gradient_computer, calibrate_calls, calibrated, num_updates,
            epoch, batches_left, dp_steps, plain_steps, used_noise_multiplier>>
acVars == <<array, max_len, current_len, appended>>
vars == <<vbVars, exVars, acVars>>

(***************************************************************************)
(* Numbers.  optax evaluates a schedule in floating point, and a scale may *)
(* be a fraction, so a batch size is an exact rational [num, den], den > 0, *)
(* in lowest terms.                                                        *)
(***************************************************************************)
Max(a, b) == IF a >= b THEN a ELSE b
Min(a, b) == IF a <= b THEN a ELSE b
Abs(a) == IF a < 0 THEN -a ELSE a
Sign(a) == IF a > 0 THEN 1 ELSE IF a < 0 THEN -1 ELSE 0

RECURSIVE GCD(_, _)
GCD(a, b) == IF b = 0 THEN a ELSE GCD(b, a % b)

Rat(n, d) ==
  LET g == GCD(Abs(n), d) IN [num |-> n \div g, den |-> d \div g]
RatOfInt(n) == [num |-> n, den |-> 1]
RatMul(a, b) == Rat(a.num * b.num, a.den * b.den)
RatAdd(a, b) == Rat(a.num * b.den + b.num * a.den, a.den * b.den)

\* Python's  a // b  and  a % b  for a rational a and a positive integer b.
RatFloorDiv(a, b) == a.num \div (a.den * b)
RatMod(a, b) == RatAdd(a, RatOfInt(-(b * RatFloorDiv(a, b))))

(***************************************************************************)
(* VirtualBatching: the inputs explored.                                   *)
(***************************************************************************)
MaxBatchSizeInit == 4
MaxBoundary == 2
MaxStep == 3

\* The module docstring's example (128, 32, 2) and a size its check rejects
\* (100) are explored beside the small values.
BatchSizeInits == (1 .. MaxBatchSizeInit) \cup {100, 128}
PerDeviceSizes == {1, 2, 32}
DeviceCounts == {1, 2}
Boundaries == 0 .. MaxBoundary
GlobalSteps == (0 .. MaxStep) \cup {10}

\* Scales: -1 (which optax rejects), 0, 1/2, 2 and 3.
Scales == {[num |-> -1, den |-> 1], [num |-> 0, den |-> 1],
           [num |-> 1, den |-> 2], [num |-> 2, den |-> 1],
           [num |-> 3, den |-> 1]}

\* scale_schedule is None, or a dict from boundary steps to scales.  The
\* dicts explored have at most two entries.
NoSchedule == [given |-> FALSE, dict |-> <<>>]
Dicts == UNION {[B -> Scales] : B \in {C \in SUBSET Boundaries : Cardinality(C) <= 2}}
Schedules == {NoSchedule} \cup {[given |-> TRUE, dict |-> f] : f \in Dicts}

(***************************************************************************)
(* optax.piecewise_constant_schedule, which __init__ calls at lines 73-76. *)
(* It rejects a negative scale when the schedule is built, and the function *)
(* it returns folds over the items sorted by boundary:                     *)
(*     indicator = maximum(0, sign(threshold - count))                     *)
(*     v = v * indicator + (1 - indicator) * scale * v                     *)
(***************************************************************************)
AllPositive(sched) ==
  \A b \in DOMAIN sched.dict : sched.dict[b].num >= 0

Indicator(threshold, count) == Max(0, Sign(threshold - count))

RECURSIVE ScheduleFold(_, _, _, _)
ScheduleFold(v, dict, todo, count) ==
  IF todo = {} THEN v
  ELSE LET threshold == CHOOSE b \in todo : \A c \in todo : b <= c
           scale == dict[threshold]
           indicator == Indicator(threshold, count)
       IN  ScheduleFold(
             RatAdd(RatMul(v, RatOfInt(indicator)),
                    RatMul(RatMul(RatOfInt(1 - indicator), scale), v)),
             dict, todo \ {threshold}, count)

PiecewiseConstantSchedule(init_value, sched, count) ==
  IF sched.given
    THEN ScheduleFold(RatOfInt(init_value), sched.dict, DOMAIN sched.dict, count)
    ELSE RatOfInt(init_value)

(***************************************************************************)
(* VirtualBatching's methods, as functions of the instance's fields.       *)
(***************************************************************************)
BatchSizePerStep == batch_size_per_device_per_step * num_devices

\* BatchSize as it would be were the schedule evaluated one step late, so that
\* a boundary step still had the old value.
BatchSizeExclusiveLeft(global_step) ==
  PiecewiseConstantSchedule(batch_size_init, scale_schedule, global_step - 1)

BatchSize(global_step) ==
  PiecewiseConstantSchedule(batch_size_init, scale_schedule, global_step)

\* ApplyUpdateEvery as it would be were the device count forgotten.
ApplyUpdateEveryPerDevice(global_step) ==
  RatFloorDiv(BatchSize(global_step), batch_size_per_device_per_step)

ApplyUpdateEvery(global_step) ==
  RatFloorDiv(BatchSize(global_step), BatchSizePerStep)

\* DataSeen as it would be were the total batch size counted per step.
DataSeenByBatchSize(global_step) == global_step * batch_size_init

DataSeen(global_step) == global_step * BatchSizePerStep

\* The check of line 67 as it would be were the device count forgotten.
DivisibilityCheckFailsPerDevice(init, per_device, devices) ==
  init % per_device # 0

\* __init__'s check of line 67:  batch_size_init % batch_size_per_step
DivisibilityCheckFails(init, per_device, devices) ==
  init % (per_device * devices) # 0

\* num_devices if num_devices is not None else jax.device_count()
ResolveNumDevices(given, arg, device_count) ==
  IF given THEN arg ELSE device_count

(***************************************************************************)
(* VirtualBatching: actions.                                               *)
(***************************************************************************)
NoQuery == [name |-> "none", global_step |-> 0]

InitVB ==
  /\ status = "unconstructed"
  /\ error = "none"
  /\ batch_size_init = 0
  /\ batch_size_per_device_per_step = 0
  /\ num_devices = 0
  /\ scale_schedule = NoSchedule
  /\ constructed_with = [batch_size_init |-> 0,
                         batch_size_per_device_per_step |-> 0,
                         num_devices |-> 0,
                         scale_schedule |-> NoSchedule]
  /\ query = NoQuery
  /\ result = 0

\* __init__: the fields are assigned first, then the divisibility check may
\* raise ValueError, then optax builds the schedule function (and raises
\* ValueError for a negative scale).
Construct ==
  /\ status = "unconstructed"
  /\ \E init \in BatchSizeInits, per_device \in PerDeviceSizes,
        sched \in Schedules, given \in BOOLEAN,
        arg \in DeviceCounts, device_count \in DeviceCounts :
       LET devices == ResolveNumDevices(given, arg, device_count) IN
       /\ batch_size_init' = init
       /\ batch_size_per_device_per_step' = per_device
       /\ scale_schedule' = sched
       /\ num_devices' = devices
       /\ constructed_with' = [batch_size_init |-> init,
                               batch_size_per_device_per_step |-> per_device,
                               num_devices |-> devices,
                               scale_schedule |-> sched]
       /\ IF DivisibilityCheckFails(init, per_device, devices)
            THEN status' = "raised" /\ error' = "ValueError"
            ELSE IF ~AllPositive(sched)
              THEN status' = "raised" /\ error' = "ValueError"
              ELSE status' = "constructed" /\ error' = "none"
  /\ UNCHANGED <<query, result>>

fields == <<batch_size_init, batch_size_per_device_per_step, num_devices,
            scale_schedule>>

\* CallBatchSize as it would be were batch_size to store the value it
\* computed back into self.batch_size_init.
CallBatchSizeStoring ==
  /\ status = "constructed"
  /\ \E global_step \in GlobalSteps :
       /\ query' = [name |-> "batch_size", global_step |-> global_step]
       /\ result' = BatchSize(global_step)
       /\ batch_size_init' = RatFloorDiv(BatchSize(global_step), 1)
  /\ UNCHANGED <<status, error, batch_size_per_device_per_step, num_devices,
                 scale_schedule, constructed_with>>

CallBatchSize ==
  /\ status = "constructed"
  /\ \E global_step \in GlobalSteps :
       /\ query' = [name |-> "batch_size", global_step |-> global_step]
       /\ result' = BatchSize(global_step)
  /\ UNCHANGED <<status, error, fields, constructed_with>>

CallBatchSizePerStep ==
  /\ status = "constructed"
  /\ query' = [name |-> "batch_size_per_step", global_step |-> 0]
  /\ result' = BatchSizePerStep
  /\ UNCHANGED <<status, error, fields, constructed_with>>

CallApplyUpdateEvery ==
  /\ status = "constructed"
  /\ \E global_step \in GlobalSteps :
       /\ query' = [name |-> "apply_update_every", global_step |-> global_step]
       /\ result' = ApplyUpdateEvery(global_step)
  /\ UNCHANGED <<status, error, fields, constructed_with>>

CallDataSeen ==
  /\ status = "constructed"
  /\ \E global_step \in GlobalSteps :
       /\ query' = [name |-> "data_seen", global_step |-> global_step]
       /\ result' = DataSeen(global_step)
  /\ UNCHANGED <<status, error, fields, constructed_with>>

(***************************************************************************)
(* examples/jax_api_example.py: main.                                      *)
(***************************************************************************)
MaxEpochs == 2
MaxTrainSize == 4
MaxBatchSize == 3
MaxNoiseMultiplier == 2

\* main's own settings (lines 90-92)
ExampleNumEpochs == 100
ExampleBatchSize == 256
ExampleTrainSize == 10000

\* The settings explored: main's own, and every small combination.
Settings ==
  {[num_epochs |-> ExampleNumEpochs, batch_size |-> ExampleBatchSize,
    train_size |-> ExampleTrainSize, use_dp |-> TRUE]}
  \cup [num_epochs : 1 .. MaxEpochs, batch_size : 1 .. MaxBatchSize,
        train_size : 1 .. MaxTrainSize, use_dp : BOOLEAN]

\* What calibrate_noise_multiplier may return: a positive multiplier.  (It
\* may also fail: CalibrateRaises.)
NoiseMultipliers == 1 .. MaxNoiseMultiplier

NoGradientComputer == [built |-> FALSE, noise_multiplier |-> 0]
NotCalibrated == [returned |-> FALSE, value |-> 0]

\* num_updates=num_epochs * train_size // batch_size  (line 111)
NumUpdatesArg(epochs, size, batch) == (epochs * size) \div batch

\* NumBatches as it would be with drop_remainder=False.
NumBatchesKeepRemainder(size, batch) == (size + batch - 1) \div batch

\* The batches one pass over batch_dataset(x, y, batch_size) yields:
\* .batch(batch_size, drop_remainder=True)
NumBatches(size, batch) == size \div batch

InitExample ==
  /\ pc = "start"
  /\ \E s \in Settings :
       /\ num_epochs = s.num_epochs
       /\ batch_size = s.batch_size
       /\ train_size = s.train_size
       /\ use_dp = s.use_dp
  /\ noise_multiplier = 0
  /\ gradient_computer = NoGradientComputer
  /\ calibrate_calls = 0
  /\ calibrated = NotCalibrated
  /\ num_updates = 0
  /\ epoch = 0
  /\ batches_left = 0
  /\ dp_steps = 0
  /\ plain_steps = 0
  /\ used_noise_multiplier = 0

\* lines 97-102: load the data, gradient_computer = None, branch on use_dp
LoadData ==
  /\ pc = "start"
  /\ gradient_computer' = NoGradientComputer
  /\ pc' = IF use_dp THEN "calibrate" ELSE "train"
  /\ UNCHANGED <<num_epochs, batch_size, train_size, use_dp, noise_multiplier,
                 calibrate_calls, calibrated, num_updates, epoch, batches_left,
                 dp_steps, plain_steps, used_noise_multiplier>>

\* lines 107-114, the call returns
CalibrateReturns ==
  /\ pc = "calibrate"
  /\ \E value \in NoiseMultipliers :
       /\ noise_multiplier' = value
       /\ calibrated' = [returned |-> TRUE, value |-> value]
  /\ calibrate_calls' = calibrate_calls + 1
  /\ num_updates' = NumUpdatesArg(num_epochs, train_size, batch_size)
  /\ pc' = "build"
  /\ UNCHANGED <<num_epochs, batch_size, train_size, use_dp, gradient_computer,
                 epoch, batches_left, dp_steps, plain_steps,
                 used_noise_multiplier>>

\* CalibrateRaises as it would be were the failure caught and a default
\* multiplier used instead.
CalibrateRaisesFallback ==
  /\ pc = "calibrate"
  /\ calibrate_calls' = calibrate_calls + 1
  /\ num_updates' = NumUpdatesArg(num_epochs, train_size, batch_size)
  /\ noise_multiplier' = 1
  /\ pc' = "build"
  /\ UNCHANGED <<num_epochs, batch_size, train_size, use_dp,
                 gradient_computer, calibrated, epoch, batches_left, dp_steps,
                 plain_steps, used_noise_multiplier>>

\* lines 107-114, the call raises: main has no handler, so the exception
\* leaves main
CalibrateRaises ==
  /\ pc = "calibrate"
  /\ calibrate_calls' = calibrate_calls + 1
  /\ num_updates' = NumUpdatesArg(num_epochs, train_size, batch_size)
  /\ pc' = "failed"
  /\ UNCHANGED <<num_epochs, batch_size, train_size, use_dp, noise_multiplier,
                 gradient_computer, calibrated, epoch, batches_left, dp_steps,
                 plain_steps, used_noise_multiplier>>

\* lines 117-123
BuildGradientComputer ==
  /\ pc = "build"
  /\ gradient_computer' = [built |-> TRUE, noise_multiplier |-> noise_multiplier]
  /\ pc' = "train"
  /\ UNCHANGED <<num_epochs, batch_size, train_size, use_dp, noise_multiplier,
                 calibrate_calls, calibrated, num_updates, epoch, batches_left,
                 dp_steps, plain_steps, used_noise_multiplier>>

\* lines 160-163: one more epoch, over a freshly batched dataset
EpochBegin ==
  /\ pc = "train"
  /\ epoch < num_epochs
  /\ batches_left' = NumBatches(train_size, batch_size)
  /\ pc' = "epoch"
  /\ UNCHANGED <<num_epochs, batch_size, train_size, use_dp, noise_multiplier,
                 gradient_computer, calibrate_calls, calibrated, num_updates,
                 epoch, dp_steps, plain_steps, used_noise_multiplier>>

\* lines 164-171 with dp_update_step (135-149): the step reads the noise
\* multiplier of gradient_computer
DpUpdateStep ==
  /\ pc = "epoch"
  /\ batches_left > 0
  /\ use_dp
  /\ used_noise_multiplier' = gradient_computer.noise_multiplier
  /\ dp_steps' = dp_steps + 1
  /\ batches_left' = batches_left - 1
  /\ UNCHANGED <<pc, num_epochs, batch_size, train_size, use_dp,
                 noise_multiplier, gradient_computer, calibrate_calls,
                 calibrated, num_updates, epoch, plain_steps>>

\* lines 164-173 with update_step (151-157)
UpdateStep ==
  /\ pc = "epoch"
  /\ batches_left > 0
  /\ ~use_dp
  /\ plain_steps' = plain_steps + 1
  /\ batches_left' = batches_left - 1
  /\ UNCHANGED <<pc, num_epochs, batch_size, train_size, use_dp,
                 noise_multiplier, gradient_computer, calibrate_calls,
                 calibrated, num_updates, epoch, dp_steps,
                 used_noise_multiplier>>

\* lines 178-181: the dataset is exhausted
EpochEnd ==
  /\ pc = "epoch"
  /\ batches_left = 0
  /\ epoch' = epoch + 1
  /\ pc' = "train"
  /\ UNCHANGED <<num_epochs, batch_size, train_size, use_dp, noise_multiplier,
                 gradient_computer, calibrate_calls, calibrated, num_updates,
                 batches_left, dp_steps, plain_steps, used_noise_multiplier>>

\* lines 183-188
TrainingComplete ==
  /\ pc = "train"
  /\ epoch = num_epochs
  /\ pc' = "done"
  /\ UNCHANGED <<num_epochs, batch_size, train_size, use_dp, noise_multiplier,
                 gradient_computer, calibrate_calls, calibrated, num_updates,
                 epoch, batches_left, dp_steps, plain_steps,
                 used_noise_multiplier>>

(***************************************************************************)
(* ArrayConcatenater.                                                      *)
(***************************************************************************)
MaxMaxLen == 3
MaxArrayLen == 2
MaxAppends == 3

Elements == {0, 1}
Arrays == UNION {[1 .. n -> Elements] : n \in 0 .. MaxArrayLen}
NoMaxLen == [given |-> FALSE, value |-> 0]
MaxLens == {NoMaxLen} \cup {[given |-> TRUE, value |-> m] : m \in 0 .. MaxMaxLen}

\* array[:k] for k > 0
SliceTo(arr, k) == SubSeq(arr, 1, Min(Len(arr), k))

\* ToAppend as it would be were the array not sliced to the room left.
ToAppendUnsliced(ml, cl, arr) ==
  IF ~ml.given THEN [some |-> TRUE, value |-> arr]
  ELSE IF cl < ml.value
    THEN [some |-> TRUE, value |-> arr]
    ELSE [some |-> FALSE, value |-> <<>>]

\* lines 66-71: what append decides to store, if anything
ToAppend(ml, cl, arr) ==
  IF ~ml.given THEN [some |-> TRUE, value |-> arr]
  ELSE IF cl < ml.value
    THEN [some |-> TRUE, value |-> SliceTo(arr, ml.value - cl)]
    ELSE [some |-> FALSE, value |-> <<>>]

\* asarray: np.concatenate(self._array)
RECURSIVE Concatenate(_)
Concatenate(chunks) ==
  IF chunks = <<>> THEN <<>> ELSE Head(chunks) \o Concatenate(Tail(chunks))

InitConcat ==
  /\ array = <<>>
  /\ max_len \in MaxLens
  /\ current_len = 0
  /\ appended = <<>>

AppendArray ==
  /\ Len(appended) < MaxAppends
  /\ \E arr \in Arrays :
       LET to_append == ToAppend(max_len, current_len, arr) IN
       /\ appended' = Append(appended, arr)
       /\ IF to_append.some
            THEN /\ array' = Append(array, to_append.value)
                 /\ current_len' = current_len + Len(to_append.value)
            ELSE UNCHANGED <<array, current_len>>
  /\ UNCHANGED max_len

(***************************************************************************)
(* The specifications.  A component that a specification does not run      *)
(* stays as it is before its construction.                                 *)
(***************************************************************************)
IdleExample ==
  /\ pc = "idle"
  /\ num_epochs = 0 /\ batch_size = 0 /\ train_size = 0 /\ use_dp = FALSE
  /\ noise_multiplier = 0
  /\ gradient_computer = NoGradientComputer
  /\ calibrate_calls = 0
  /\ calibrated = NotCalibrated
  /\ num_updates = 0
  /\ epoch = 0 /\ batches_left = 0
  /\ dp_steps = 0 /\ plain_steps = 0
  /\ used_noise_multiplier = 0

IdleConcat ==
  /\ array = <<>> /\ max_len = NoMaxLen /\ current_len = 0 /\ appended = <<>>

Init == InitVB /\ IdleExample /\ IdleConcat

Next ==
  \/ Construct /\ UNCHANGED <<exVars, acVars>>
  \/ CallBatchSize /\ UNCHANGED <<exVars, acVars>>
  \/ CallBatchSizePerStep /\ UNCHANGED <<exVars, acVars>>
  \/ CallApplyUpdateEvery /\ UNCHANGED <<exVars, acVars>>
  \/ CallDataSeen /\ UNCHANGED <<exVars, acVars>>

Spec == Init /\ [][Next]_vars

InitEx == InitVB /\ InitExample /\ IdleConcat

NextExample ==
  \/ LoadData /\ UNCHANGED <<vbVars, acVars>>
  \/ CalibrateReturns /\ UNCHANGED <<vbVars, acVars>>
  \/ CalibrateRaises /\ UNCHANGED <<vbVars, acVars>>
  \/ BuildGradientComputer /\ UNCHANGED <<vbVars, acVars>>
  \/ EpochBegin /\ UNCHANGED <<vbVars, acVars>>
  \/ DpUpdateStep /\ UNCHANGED <<vbVars, acVars>>
  \/ UpdateStep /\ UNCHANGED <<vbVars, acVars>>
  \/ EpochEnd /\ UNCHANGED <<vbVars, acVars>>
  \/ TrainingComplete /\ UNCHANGED <<vbVars, acVars>>

SpecExample == InitEx /\ [][NextExample]_vars

InitAC == InitVB /\ IdleExample /\ InitConcat

NextConcat == AppendArray /\ UNCHANGED <<vbVars, exVars>>

SpecConcat == InitAC /\ [][NextConcat]_vars

(***************************************************************************)
(* Properties of VirtualBatching, under Spec.                              *)
(***************************************************************************)
PerStepOf(args) == args.batch_size_per_device_per_step * args.num_devices

\* The scales of the boundaries at or before global_step, multiplied.
RECURSIVE ScaleProduct(_, _)
ScaleProduct(dict, bs) ==
  IF bs = {} THEN RatOfInt(1)
  ELSE LET b == CHOOSE x \in bs : TRUE
       IN  RatMul(dict[b], ScaleProduct(dict, bs \ {b}))

ReachedBoundaries(sched, global_step) ==
  {b \in DOMAIN sched.dict : b <= global_step}

\* C1: apply_update_every(global_step) returns a value >= 1 whenever
\* construction succeeded.
ApplyUpdateEveryAtLeastOne ==
  (status = "constructed" /\ query.name = "apply_update_every") => result >= 1

\* C2: after a successful construction the total batch size is an exact
\* multiple of batch_size_per_step at every step (a schedule that breaks this
\* having been rejected by the constructor).
BatchSizeAlwaysMultiple ==
  status = "constructed" =>
    \A g \in GlobalSteps : RatMod(BatchSize(g), BatchSizePerStep).num = 0

\* C3: constructing with batch_size_init not divisible by
\* batch_size_per_device_per_step * num_devices raises (ValueError, the
\* spec's InvalidParameter) and leaves no instance to query.
IndivisibleInitRejected ==
  (status # "unconstructed"
     /\ constructed_with.batch_size_init % PerStepOf(constructed_with) # 0)
    => (status = "raised" /\ error = "ValueError" /\ query = NoQuery)

IndivisibleInitRejectedWitness ==
  /\ status = "raised"
  /\ constructed_with.batch_size_init = 100
  /\ constructed_with.batch_size_per_device_per_step = 32
  /\ constructed_with.num_devices = 2

\* C5: batch_size(global_step) is batch_size_init times the scales of exactly
\* the boundaries b <= global_step: constant between boundaries, the new
\* value already at the boundary step, batch_size_init with no schedule.
BatchSizeInclusiveLeft ==
  (status = "constructed" /\ query.name = "batch_size") =>
    /\ result = RatMul(RatOfInt(batch_size_init),
                       ScaleProduct(scale_schedule.dict,
                                    ReachedBoundaries(scale_schedule,
                                                      query.global_step)))
    /\ ~scale_schedule.given => result = RatOfInt(batch_size_init)

\* a query at a boundary step itself, where the scale already applies
BatchSizeInclusiveLeftWitness ==
  /\ status = "constructed"
  /\ query.name = "batch_size"
  /\ scale_schedule.given
  /\ query.global_step \in DOMAIN scale_schedule.dict
  /\ scale_schedule.dict[query.global_step] = [num |-> 2, den |-> 1]
  /\ Cardinality(DOMAIN scale_schedule.dict) = 1
  /\ result = RatOfInt(2 * batch_size_init)

\* C6: apply_update_every(global_step) is the integer quotient of
\* batch_size(global_step) by batch_size_per_device_per_step * num_devices:
\* the q with q * per_step <= batch_size < (q + 1) * per_step; with no
\* schedule it is batch_size_init // per_step at every step, 2 for
\* (128, 32, 2).
ApplyUpdateEveryIsQuotient ==
  (status = "constructed" /\ query.name = "apply_update_every") =>
    LET bs == PiecewiseConstantSchedule(batch_size_init, scale_schedule,
                                        query.global_step)
        per_step == batch_size_per_device_per_step * num_devices
    IN  /\ result * per_step * bs.den <= bs.num
        /\ bs.num < (result + 1) * per_step * bs.den
        /\ ~scale_schedule.given => result * per_step = batch_size_init
        /\ (~scale_schedule.given /\ batch_size_init = 128
              /\ batch_size_per_device_per_step = 32 /\ num_devices = 2)
             => result = 2

ApplyUpdateEveryIsQuotientWitness ==
  /\ status = "constructed"
  /\ query = [name |-> "apply_update_every", global_step |-> MaxStep]
  /\ ~scale_schedule.given
  /\ batch_size_init = 128
  /\ batch_size_per_device_per_step = 32
  /\ num_devices = 2
  /\ result = 2

\* What a query returns on an instance built from args, by the formulas of
\* the documentation.
ExpectedResult(q, args) ==
  LET bs == RatMul(RatOfInt(args.batch_size_init),
                   ScaleProduct(args.scale_schedule.dict,
                                ReachedBoundaries(args.scale_schedule,
                                                  q.global_step)))
  IN  CASE q.name = "batch_size" -> bs
        [] q.name = "batch_size_per_step" -> PerStepOf(args)
        [] q.name = "apply_update_every" ->
             bs.num \div (bs.den * PerStepOf(args))
        [] q.name = "data_seen" -> q.global_step * PerStepOf(args)
        [] OTHER -> 0

\* C7: the queries are read-only: whatever queries were made, the four fields
\* are those the constructor was given, and the last query returned what its
\* global_step and those constructor arguments alone determine.
QueriesReadOnly ==
  status = "constructed" =>
    /\ batch_size_init = constructed_with.batch_size_init
    /\ batch_size_per_device_per_step
         = constructed_with.batch_size_per_device_per_step
    /\ num_devices = constructed_with.num_devices
    /\ scale_schedule = constructed_with.scale_schedule
    /\ result = ExpectedResult(query, constructed_with)

\* a query made on an instance with a schedule whose scale has applied
QueriesReadOnlyWitness ==
  /\ status = "constructed"
  /\ query = [name |-> "data_seen", global_step |-> 1]
  /\ scale_schedule.given
  /\ 0 \in DOMAIN scale_schedule.dict
  /\ scale_schedule.dict[0] = [num |-> 2, den |-> 1]
  /\ batch_size_init = constructed_with.batch_size_init

\* C8: data_seen(global_step) = global_step * batch_size_per_device_per_step
\* * num_devices, whatever batch_size_init and the schedule are; 640 for
\* data_seen(10) with (32, 2).
DataSeenIsStepTimesPerStep ==
  (status = "constructed" /\ query.name = "data_seen") =>
    /\ result = query.global_step * batch_size_per_device_per_step * num_devices
    /\ (query.global_step = 10 /\ batch_size_per_device_per_step = 32
          /\ num_devices = 2) => result = 640

DataSeenIsStepTimesPerStepWitness ==
  /\ status = "constructed"
  /\ query = [name |-> "data_seen", global_step |-> 10]
  /\ batch_size_init = 128
  /\ batch_size_per_device_per_step = 32
  /\ num_devices = 2
  /\ scale_schedule.given
  /\ DOMAIN scale_schedule.dict # {}
  /\ result = 640

(***************************************************************************)
(* Properties of the example program, under SpecExample.                   *)
(***************************************************************************)
\* C4: with DP enabled, every DP update step uses the noise multiplier that
\* one successful calibrate_noise_multiplier call returned before training:
\* the calibrator is called at most once, a step runs only after it has
\* returned, the gradient computer holds the returned value and no other,
\* and a failed calibration leaves no gradient computer and no step.
CalibratedOnceBeforeTraining ==
  /\ calibrate_calls <= 1
  /\ dp_steps > 0 =>
       /\ calibrate_calls = 1
       /\ calibrated.returned
       /\ used_noise_multiplier = calibrated.value
  /\ gradient_computer.built =>
       /\ calibrated.returned
       /\ gradient_computer.noise_multiplier = calibrated.value
  /\ (calibrate_calls = 1 /\ ~calibrated.returned) =>
       /\ pc = "failed"
       /\ ~gradient_computer.built
       /\ dp_steps = 0 /\ plain_steps = 0

\* training has finished, several DP steps ran, all with the calibrated value
CalibratedOnceBeforeTrainingWitness ==
  /\ pc = "done"
  /\ use_dp
  /\ dp_steps >= 2
  /\ calibrate_calls = 1
  /\ calibrated = [returned |-> TRUE, value |-> 2]
  /\ used_noise_multiplier = 2

\* C9: the DP update steps executed never exceed the num_updates passed to
\* calibrate_noise_multiplier (and there are none before it was called).
DpStepsWithinNumUpdates ==
  /\ calibrate_calls = 0 => dp_steps = 0
  /\ calibrate_calls > 0 => dp_steps <= num_updates

\* main's own settings: 100 epochs of 39 full batches, 3906 updates accounted
DpStepsWithinNumUpdatesWitness ==
  /\ pc = "done"
  /\ num_epochs = ExampleNumEpochs
  /\ batch_size = ExampleBatchSize
  /\ train_size = ExampleTrainSize
  /\ dp_steps = 3900
  /\ num_updates = 3906

(***************************************************************************)
(* Properties of ArrayConcatenater, under SpecConcat.                      *)
(***************************************************************************)
Full == max_len.given /\ current_len >= max_len.value

ConcatenaterInvariant ==
  /\ current_len = Len(Concatenate(array))
  /\ max_len.given =>
       /\ current_len <= max_len.value
       /\ Concatenate(array)
            = SubSeq(Concatenate(appended), 1,
                     Min(max_len.value, Len(Concatenate(appended))))
  /\ ~max_len.given => array = appended

\* C10: with max_len = M the recorded length is the number of elements
\* stored and at most M, the stored elements are the first
\* min(M, total appended) elements of all appended arrays in order, and once
\* the length has reached M an append changes neither the stored chunks nor
\* the length; with max_len = None every appended array is stored whole.
ConcatenaterKeepsPrefix ==
  /\ []ConcatenaterInvariant
  /\ [][Full => UNCHANGED <<array, current_len>>]_vars

\* an append with more elements than the room left has been cut, and a
\* further append then found the concatenater full
ConcatenaterKeepsPrefixWitness ==
  /\ max_len = [given |-> TRUE, value |-> 3]
  /\ Len(appended) = 3
  /\ Len(appended[1]) = 2 /\ Len(appended[2]) = 2 /\ Len(appended[3]) = 1
  /\ Len(array) = 2
  /\ current_len = 3

====
